---- MODULE Spec2Model ----
(***************************************************************************)
(* The feedback board server (src/server/index.js): three SQLite tables    *)
(* (feedback, upvotes, comments) behind eight Express handlers.  Every     *)
(* handler runs its validation synchronously and then issues its SQL       *)
(* statements one at a time, each from the callback of the one before;     *)
(* a statement runs atomically on the single connection, and statements    *)
(* of different requests interleave freely.                                *)
(*                                                                         *)
(* A JSON value that may be absent (a body field, a header) is a sequence  *)
(* of length 0 (undefined) or 1 (the value).  An email is a sequence of    *)
(* one-character strings, so that the regular expression of isValidEmail   *)
(* is evaluated on its characters.                                         *)
(***************************************************************************)
EXTENDS Integers, Sequences, FiniteSets, TLC

\* ------------------------------------------------------------------ bounds
NumClients == 3
NumWorkers == 2
MaxFeedback == 2
MaxUpvotes == 2
MaxComments == 2
MaxClock == 1

Clients == 1..NumClients

\* ------------------------------------------------------------ JSON values
Undefined == <<>>
Some(v) == <<v>>
\* JavaScript's !v for a body field or header that is a string or undefined
Falsy(o) == o = Undefined \/ Len(o[1]) = 0

\* ------------------------------------------------------------------ emails
EmailA == <<"a", "@", "x", ".", "i", "o">>
EmailB == <<"b", "@", "x", ".", "i", "o">>
EmailNoAt == <<"n", "o", "t", "-", "a", "n", "-", "e", "m", "a", "i", "l">>
EmailNoTld == <<"a", "@", "x">>
EmailSpace == <<"a", " ", "b", "@", "x", ".", "i", "o">>
EmailEmpty == <<>>

Whitespace == {" ", "\t", "\n", "\r"}

\* one or more characters of the class [^\s@]
NoSpaceNoAt(s) == Len(s) > 0 /\ \A k \in 1..Len(s) : s[k] \notin Whitespace \cup {"@"}

isValidEmailNoTld(email) ==
  \E i \in 1..Len(email) :
     /\ email[i] = "@"
     /\ NoSpaceNoAt(SubSeq(email, 1, i - 1))
     /\ NoSpaceNoAt(SubSeq(email, i + 1, Len(email)))

\* /^[^\s@]+@[^\s@]+\.[^\s@]+$/.test(email)
isValidEmail(email) ==
  \E i \in 1..Len(email) : \E j \in (i + 1)..Len(email) :
     /\ email[i] = "@"
     /\ email[j] = "."
     /\ NoSpaceNoAt(SubSeq(email, 1, i - 1))
     /\ NoSpaceNoAt(SubSeq(email, i + 1, j - 1))
     /\ NoSpaceNoAt(SubSeq(email, j + 1, Len(email)))

\* ------------------------------------------------------------ configuration
ADMIN_TOKEN == "changeme"
\* with one more status
ALLOWED_STATUSES_AND_BOGUS == {"Open", "Planned", "In Progress", "Completed", "Bogus"}

ALLOWED_STATUSES == {"Open", "Planned", "In Progress", "Completed"}

\* ------------------------------------------------------------------- state
VARIABLES
  feedback,      \* rows of table feedback
  feedbackSeq,   \* AUTOINCREMENT counter of feedback (largest id handed out)
  upvotes,       \* rows of table upvotes
  upvotesSeq,    \* AUTOINCREMENT counter of upvotes
  comments,      \* rows of table comments
  commentsSeq,   \* AUTOINCREMENT counter of comments
  now,           \* CURRENT_TIMESTAMP, in whole seconds
  pc,            \* per client: "idle", the statement its request waits for, or "done"
  req,           \* per client: the request being served (kept after the response)
  lastID,        \* per client: this.lastID of the request's insert
  res,           \* per client: the response to req, once pc = "done"
  serial,        \* whether the clients send one request at a time (fixed by Init)
  pre            \* if serial: the tables as they were when req was received

tables == <<feedback, feedbackSeq, upvotes, upvotesSeq, comments, commentsSeq>>
vars == <<feedback, feedbackSeq, upvotes, upvotesSeq, comments, commentsSeq, now,
          pc, req, lastID, res, serial, pre>>

Snapshot == [feedback |-> feedback, upvotes |-> upvotes, comments |-> comments]

NoReq ==
  [kind |-> "none", id |-> 0, token |-> Undefined, sortBy |-> Undefined,
   title |-> Undefined, description |-> Undefined, status |-> Undefined,
   user_email |-> Undefined, comment_text |-> Undefined]

NoRes == [status |-> 0, body |-> <<>>]

Error(code, msg) == [status |-> code, body |-> <<[error |-> msg]>>]

Empty ==
  /\ feedback = {}
  /\ feedbackSeq = 0
  /\ upvotes = {}
  /\ upvotesSeq = 0
  /\ comments = {}
  /\ commentsSeq = 0
  /\ now = 0
  /\ pc = [c \in Clients |-> "idle"]
  /\ req = [c \in Clients |-> NoReq]
  /\ lastID = [c \in Clients |-> 0]
  /\ res = [c \in Clients |-> NoRes]
  /\ pre = Snapshot

\* the server has started on an empty database; requests come one at a time
Init == Empty /\ serial = TRUE

\* the same, with clients that send their requests concurrently
InitConcurrent == Empty /\ serial = FALSE

\* The handler answers at once, without touching the store.
Respond(c, r, response) ==
  /\ pc' = [pc EXCEPT ![c] = "done"]
  /\ req' = [req EXCEPT ![c] = r]
  /\ res' = [res EXCEPT ![c] = response]
  /\ lastID' = [lastID EXCEPT ![c] = 0]
  /\ pre' = IF serial THEN Snapshot ELSE pre
  /\ UNCHANGED <<tables, now, serial>>

\* The handler issues a statement and returns; the response comes later.
Issue(c, r, stmt) ==
  /\ pc' = [pc EXCEPT ![c] = stmt]
  /\ req' = [req EXCEPT ![c] = r]
  /\ res' = [res EXCEPT ![c] = NoRes]
  /\ lastID' = [lastID EXCEPT ![c] = 0]
  /\ pre' = IF serial THEN Snapshot ELSE pre
  /\ UNCHANGED <<tables, now, serial>>

\* A statement's callback issues the next statement.
Continue(c, stmt) ==
  /\ pc' = [pc EXCEPT ![c] = stmt]
  /\ UNCHANGED <<req, res, pre, now, serial>>

\* A statement's callback sends the response.
Finish(c, response) ==
  /\ pc' = [pc EXCEPT ![c] = "done"]
  /\ res' = [res EXCEPT ![c] = response]
  /\ UNCHANGED <<req, pre, now, serial>>

\* SQLite checks FOREIGN KEY clauses only after PRAGMA foreign_keys = ON, which
\* the server never issues: the clauses of upvotes and comments are not enforced.
foreign_keys == FALSE

\* ------------------------------------------------------------- the queries
ParentMissing(id) == foreign_keys /\ \A f \in feedback : f.id # id

Ready(c) == pc[c] \in {"idle", "done"}

UpvoteCount(ups, id) == Cardinality({u \in ups : u.feedback_id = id})
CommentCount(cms, id) == Cardinality({m \in cms : m.feedback_id = id})

\* a row of feedback LEFT JOINed with its two counts (COALESCE(.., 0))
Listed(f) ==
  [id |-> f.id, title |-> f.title, description |-> f.description,
   user_email |-> f.user_email, created_at |-> f.created_at, status |-> f.status,
   upvote_count |-> UpvoteCount(upvotes, f.id),
   comment_count |-> CommentCount(comments, f.id)]

\* ORDER BY f.created_at DESC: a comes strictly before b
NewestFirst(a, b) == a.created_at > b.created_at

\* ORDER BY upvote_count DESC, f.created_at DESC
UpvotesFirst(a, b) ==
  \/ a.upvote_count > b.upvote_count
  \/ a.upvote_count = b.upvote_count /\ a.created_at > b.created_at

\* ORDER BY created_at ASC
OldestFirst(a, b) == a.created_at < b.created_at

\* Every order in which a query may return the rows S under ORDER BY: rows the
\* sort key does not tell apart come in an order SQL leaves open.
Before(order, a, b) ==
  CASE order = "newest" -> NewestFirst(a, b)
    [] order = "upvotes" -> UpvotesFirst(a, b)
    [] order = "oldest" -> OldestFirst(a, b)

OrderedBy(S, order) ==
  {s \in [1..Cardinality(S) -> S] :
     /\ \A i, j \in 1..Cardinality(S) : i # j => s[i] # s[j]
     /\ \A i, j \in 1..Cardinality(S) : i < j => ~Before(order, s[j], s[i])}

LowerChar(ch) ==
  CASE ch = "N" -> "n" [] ch = "E" -> "e" [] ch = "W" -> "w"
    [] ch = "S" -> "s" [] ch = "T" -> "t" [] OTHER -> ch

toLowerCase(s) == [k \in 1..Len(s) |-> LowerChar(s[k])]

Newest == <<"n", "e", "w", "e", "s", "t">>
Upvotes == <<"u", "p", "v", "o", "t", "e", "s">>

\* (req.query.sortBy || 'upvotes').toString().toLowerCase()
SortBy(r) == toLowerCase(IF Falsy(r.sortBy) THEN Upvotes ELSE r.sortBy[1])

\* --------------------------------------------------------- GET /api/feedback
GetFeedback(c, r) ==
  /\ Ready(c)
  /\ r.kind = "list"
  /\ Issue(c, r, "list_all")

\* with inner joins in place of the LEFT JOINs
GetFeedbackAllInner(c) ==
  /\ pc[c] = "list_all"
  /\ \E rows \in IF SortBy(req[c]) = Newest
                  THEN OrderedBy({Listed(f) : f \in {g \in feedback : UpvoteCount(upvotes, g.id) > 0}}, "newest")
                  ELSE OrderedBy({Listed(f) : f \in {g \in feedback : UpvoteCount(upvotes, g.id) > 0}}, "upvotes") :
        Finish(c, [status |-> 200, body |-> rows])
  /\ UNCHANGED <<tables, lastID>>

GetFeedbackAll(c) ==
  /\ pc[c] = "list_all"
  /\ \E rows \in IF SortBy(req[c]) = Newest
                  THEN OrderedBy({Listed(f) : f \in feedback}, "newest")
                  ELSE OrderedBy({Listed(f) : f \in feedback}, "upvotes") :
        Finish(c, [status |-> 200, body |-> rows])
  /\ UNCHANGED <<tables, lastID>>

\* -------------------------------------------------------- POST /api/feedback
PostFeedback(c, r) ==
  /\ Ready(c)
  /\ r.kind = "create"
  /\ IF Falsy(r.title) \/ Falsy(r.description) \/ Falsy(r.user_email)
       THEN Respond(c, r, Error(400, "title, description, and user_email are required"))
     ELSE IF ~isValidEmail(r.user_email[1])
       THEN Respond(c, r, Error(400, "Invalid email format"))
     ELSE /\ feedbackSeq < MaxFeedback
          /\ Issue(c, r, "create_insert")

\* INSERT INTO feedback (title, description, user_email) VALUES (?, ?, ?)
PostFeedbackInsert(c) ==
  /\ pc[c] = "create_insert"
  /\ feedbackSeq < MaxFeedback
  /\ feedbackSeq' = feedbackSeq + 1
  /\ feedback' = feedback \cup
       {[id |-> feedbackSeq + 1, title |-> req[c].title[1],
         description |-> req[c].description[1], user_email |-> req[c].user_email[1],
         created_at |-> now, status |-> "Open"]}
  /\ lastID' = [lastID EXCEPT ![c] = feedbackSeq + 1]
  /\ Continue(c, "create_select")
  /\ UNCHANGED <<upvotes, upvotesSeq, comments, commentsSeq>>

\* SELECT ... FROM feedback WHERE id = this.lastID, then
\* res.status(201).json({ ...row, upvote_count: 0, comment_count: 0 })
PostFeedbackSelect(c) ==
  /\ pc[c] = "create_select"
  /\ LET found == {f \in feedback : f.id = lastID[c]}
         counts == [upvote_count |-> 0, comment_count |-> 0]
     IN  IF found = {}
           THEN Finish(c, [status |-> 201, body |-> <<counts>>])
           ELSE \E f \in found :
                  Finish(c, [status |-> 201, body |->
                    <<[id |-> f.id, title |-> f.title, description |-> f.description,
                       user_email |-> f.user_email, created_at |-> f.created_at,
                       status |-> f.status, upvote_count |-> 0, comment_count |-> 0]>>])
  /\ UNCHANGED <<tables, lastID>>

\* ------------------------------------------------------------ the admin gate
\* const token = req.header('x-admin-token'); next() is reached iff this holds
requireAdminAnyToken(r) == ~Falsy(r.token)

requireAdmin(r) == ~(Falsy(r.token) \/ r.token[1] # ADMIN_TOKEN)

\* ----------------------------------------------------- PUT /api/feedback/:id
\* without the check of status against ALLOWED_STATUSES
PutFeedbackStatusUnchecked(c, r) ==
  /\ Ready(c)
  /\ r.kind = "update"
  /\ IF ~requireAdmin(r)
       THEN Respond(c, r, Error(401, "Unauthorized"))
     ELSE IF r.id = 0
       THEN Respond(c, r, Error(400, "Valid feedback id is required"))
     ELSE IF r.title = Undefined /\ r.description = Undefined /\ r.status = Undefined
       THEN Respond(c, r, Error(400, "No fields to update"))
     ELSE Issue(c, r, "update_run")

PutFeedback(c, r) ==
  /\ Ready(c)
  /\ r.kind = "update"
  /\ IF ~requireAdmin(r)
       THEN Respond(c, r, Error(401, "Unauthorized"))
     ELSE IF r.id = 0
       THEN Respond(c, r, Error(400, "Valid feedback id is required"))
     ELSE IF r.status # Undefined /\ r.status[1] \notin ALLOWED_STATUSES
       THEN Respond(c, r, Error(400, "Invalid status value"))
     ELSE IF r.title = Undefined /\ r.description = Undefined /\ r.status = Undefined
       THEN Respond(c, r, Error(400, "No fields to update"))
     ELSE Issue(c, r, "update_run")

\* UPDATE feedback SET title = ?, description = ?, status = ? with the
\* default of the column for a field that is not supplied
UpdatedAllFields(f, r) ==
  [f EXCEPT !.title = IF r.title = Undefined THEN @ ELSE r.title[1],
            !.description = IF r.description = Undefined THEN @ ELSE r.description[1],
            !.status = IF r.status = Undefined THEN "Open" ELSE r.status[1]]

\* UPDATE feedback SET <the supplied fields> WHERE id = ?
Updated(f, r) ==
  [f EXCEPT !.title = IF r.title = Undefined THEN @ ELSE r.title[1],
            !.description = IF r.description = Undefined THEN @ ELSE r.description[1],
            !.status = IF r.status = Undefined THEN @ ELSE r.status[1]]

PutFeedbackUpdate(c) ==
  /\ pc[c] = "update_run"
  /\ feedback' = {IF f.id = req[c].id THEN Updated(f, req[c]) ELSE f : f \in feedback}
  /\ Continue(c, "update_select")
  /\ UNCHANGED <<feedbackSeq, upvotes, upvotesSeq, comments, commentsSeq, lastID>>

\* with if (getErr) in place of if (getErr || !row)
PutFeedbackSelectAnyRow(c) ==
  /\ pc[c] = "update_select"
  /\ LET found == {f \in feedback : f.id = req[c].id}
     IN  IF found = {}
           THEN Finish(c, [status |-> 200, body |-> <<>>])
           ELSE \E f \in found : Finish(c, [status |-> 200, body |-> <<f>>])
  /\ UNCHANGED <<tables, lastID>>

\* SELECT ... FROM feedback WHERE id = ?; if (getErr || !row) 500
PutFeedbackSelect(c) ==
  /\ pc[c] = "update_select"
  /\ LET found == {f \in feedback : f.id = req[c].id}
     IN  IF found = {}
           THEN Finish(c, Error(500, "Failed to retrieve updated feedback"))
           ELSE \E f \in found : Finish(c, [status |-> 200, body |-> <<f>>])
  /\ UNCHANGED <<tables, lastID>>

\* ------------------------------------------------------ GET /api/admin/verify
AdminVerify(c, r) ==
  /\ Ready(c)
  /\ r.kind = "verify"
  /\ IF ~requireAdmin(r)
       THEN Respond(c, r, Error(401, "Unauthorized"))
       ELSE Respond(c, r, [status |-> 200, body |-> <<[ok |-> TRUE]>>])

\* -------------------------------------------------- DELETE /api/feedback/:id
DeleteFeedback(c, r) ==
  /\ Ready(c)
  /\ r.kind = "delete"
  /\ IF ~requireAdmin(r)
       THEN Respond(c, r, Error(401, "Unauthorized"))
     ELSE IF r.id = 0
       THEN Respond(c, r, Error(400, "Valid feedback id is required"))
     ELSE Issue(c, r, "delete_upvotes")

\* DELETE FROM upvotes WHERE feedback_id = ?
DeleteUpvotes(c) ==
  /\ pc[c] = "delete_upvotes"
  /\ upvotes' = {u \in upvotes : u.feedback_id # req[c].id}
  /\ Continue(c, "delete_comments")
  /\ UNCHANGED <<feedback, feedbackSeq, upvotesSeq, comments, commentsSeq, lastID>>

\* DELETE FROM comments WHERE feedback_id = ?
DeleteCommentsKept(c) ==
  /\ pc[c] = "delete_comments"
  /\ Continue(c, "delete_feedback")
  /\ UNCHANGED <<tables, lastID>>

DeleteComments(c) ==
  /\ pc[c] = "delete_comments"
  /\ comments' = {m \in comments : m.feedback_id # req[c].id}
  /\ Continue(c, "delete_feedback")
  /\ UNCHANGED <<feedback, feedbackSeq, upvotes, upvotesSeq, commentsSeq, lastID>>

DeleteRowAlwaysOk(c) ==
  /\ pc[c] = "delete_feedback"
  /\ feedback' = {f \in feedback : f.id # req[c].id}
  /\ Finish(c, [status |-> 200, body |-> <<[ok |-> TRUE]>>])
  /\ UNCHANGED <<feedbackSeq, upvotes, upvotesSeq, comments, commentsSeq, lastID>>

\* DELETE FROM feedback WHERE id = ?; this.changes === 0 is answered 404
DeleteRow(c) ==
  /\ pc[c] = "delete_feedback"
  /\ feedback' = {f \in feedback : f.id # req[c].id}
  /\ IF feedback' = feedback
       THEN Finish(c, Error(404, "Feedback not found"))
       ELSE Finish(c, [status |-> 200, body |-> <<[ok |-> TRUE]>>])
  /\ UNCHANGED <<feedbackSeq, upvotes, upvotesSeq, comments, commentsSeq, lastID>>

\* ------------------------------------------- POST /api/feedback/:id/upvote
\* UNIQUE (feedback_id, user_email)
UniqueNotChecked(id, email) == FALSE

UniqueByEmail(id, email) == \E u \in upvotes : u.user_email = email

UniqueViolation(id, email) ==
  \E u \in upvotes : u.feedback_id = id /\ u.user_email = email

PostUpvote(c, r) ==
  /\ Ready(c)
  /\ r.kind = "upvote"
  /\ IF r.id = 0 \/ Falsy(r.user_email)
       THEN Respond(c, r, Error(400, "feedback id and user_email are required"))
     ELSE IF ~isValidEmail(r.user_email[1])
       THEN Respond(c, r, Error(400, "Invalid email format"))
     ELSE /\ upvotesSeq < MaxUpvotes \/ UniqueViolation(r.id, r.user_email[1])
          /\ Issue(c, r, "upvote_insert")

\* INSERT OR IGNORE: a duplicate is dropped without an error
PostUpvoteInsertOrIgnore(c) ==
  /\ pc[c] = "upvote_insert"
  /\ IF UniqueViolation(req[c].id, req[c].user_email[1])
       THEN /\ Continue(c, "upvote_count")
            /\ UNCHANGED <<tables, lastID>>
       ELSE /\ upvotesSeq < MaxUpvotes
            /\ upvotesSeq' = upvotesSeq + 1
            /\ upvotes' = upvotes \cup
                 {[id |-> upvotesSeq + 1, feedback_id |-> req[c].id,
                   user_email |-> req[c].user_email[1]]}
            /\ lastID' = [lastID EXCEPT ![c] = upvotesSeq + 1]
            /\ Continue(c, "upvote_count")
            /\ UNCHANGED <<feedback, feedbackSeq, comments, commentsSeq>>

\* INSERT INTO upvotes (feedback_id, user_email) VALUES (?, ?)
PostUpvoteInsert(c) ==
  /\ pc[c] = "upvote_insert"
  /\ IF UniqueViolation(req[c].id, req[c].user_email[1])
       THEN /\ Finish(c, Error(409, "User has already upvoted this feedback"))
            /\ UNCHANGED <<tables, lastID>>
     ELSE IF ParentMissing(req[c].id)
       THEN /\ Finish(c, Error(500, "Failed to upvote"))
            /\ UNCHANGED <<tables, lastID>>
     ELSE /\ upvotesSeq < MaxUpvotes
          /\ upvotesSeq' = upvotesSeq + 1
          /\ upvotes' = upvotes \cup
               {[id |-> upvotesSeq + 1, feedback_id |-> req[c].id,
                 user_email |-> req[c].user_email[1]]}
          /\ lastID' = [lastID EXCEPT ![c] = upvotesSeq + 1]
          /\ Continue(c, "upvote_count")
          /\ UNCHANGED <<feedback, feedbackSeq, comments, commentsSeq>>

\* answering with this.lastID of the insert, without a count
PostUpvoteCountLastID(c) ==
  /\ pc[c] = "upvote_count"
  /\ Finish(c, [status |-> 200, body |->
       <<[message |-> "Upvoted successfully", upvote_count |-> lastID[c]]>>])
  /\ UNCHANGED <<tables, lastID>>

\* SELECT COUNT(*) AS upvote_count FROM upvotes WHERE feedback_id = ?
PostUpvoteCount(c) ==
  /\ pc[c] = "upvote_count"
  /\ Finish(c, [status |-> 200, body |->
       <<[message |-> "Upvoted successfully",
          upvote_count |-> UpvoteCount(upvotes, req[c].id)]>>])
  /\ UNCHANGED <<tables, lastID>>

\* ----------------------------------------- POST /api/feedback/:id/comments
PostComment(c, r) ==
  /\ Ready(c)
  /\ r.kind = "comment"
  /\ IF r.id = 0 \/ Falsy(r.user_email) \/ Falsy(r.comment_text)
       THEN Respond(c, r, Error(400, "feedback id, user_email, and comment_text are required"))
     ELSE IF ~isValidEmail(r.user_email[1])
       THEN Respond(c, r, Error(400, "Invalid email format"))
     ELSE /\ commentsSeq < MaxComments
          /\ Issue(c, r, "comment_insert")

\* INSERT INTO comments (feedback_id, user_email, comment_text) VALUES (?, ?, ?)
PostCommentInsert(c) ==
  /\ pc[c] = "comment_insert"
  /\ IF ParentMissing(req[c].id)
       THEN /\ Finish(c, Error(500, "Failed to add comment"))
            /\ UNCHANGED <<tables, lastID>>
       ELSE /\ commentsSeq < MaxComments
            /\ commentsSeq' = commentsSeq + 1
            /\ comments' = comments \cup
                 {[id |-> commentsSeq + 1, feedback_id |-> req[c].id,
                   user_email |-> req[c].user_email[1],
                   comment_text |-> req[c].comment_text[1], created_at |-> now]}
            /\ lastID' = [lastID EXCEPT ![c] = commentsSeq + 1]
            /\ Continue(c, "comment_select")
            /\ UNCHANGED <<feedback, feedbackSeq, upvotes, upvotesSeq>>

\* SELECT ... FROM comments WHERE id = this.lastID; res.status(201).json(row)
PostCommentSelect(c) ==
  /\ pc[c] = "comment_select"
  /\ LET found == {m \in comments : m.id = lastID[c]}
     IN  IF found = {}
           THEN Finish(c, [status |-> 201, body |-> <<>>])
           ELSE \E m \in found : Finish(c, [status |-> 201, body |-> <<m>>])
  /\ UNCHANGED <<tables, lastID>>

\* ------------------------------------------ GET /api/feedback/:id/comments
GetComments(c, r) ==
  /\ Ready(c)
  /\ r.kind = "comments"
  /\ IF r.id = 0
       THEN Respond(c, r, Error(400, "feedback id is required"))
       ELSE Issue(c, r, "comments_all")

\* SELECT ... FROM comments WHERE feedback_id = ? ORDER BY created_at ASC
GetCommentsAll(c) ==
  /\ pc[c] = "comments_all"
  /\ \E rows \in OrderedBy({m \in comments : m.feedback_id = req[c].id}, "oldest") :
        Finish(c, [status |-> 200, body |-> rows])
  /\ UNCHANGED <<tables, lastID>>

\* ------------------------------------------------------------------ the clock
\* CURRENT_TIMESTAMP moves on by a second
Tick ==
  /\ now < MaxClock
  /\ now' = now + 1
  /\ UNCHANGED <<tables, pc, req, lastID, res, serial, pre>>

\* ------------------------------------------------------------- the requests
Ids == {0, 1, 2}
Tokens == {Undefined, Some(""), Some("wrong"), Some(ADMIN_TOKEN)}

List(s) == [NoReq EXCEPT !.kind = "list", !.sortBy = s]
Create(t, d, e) ==
  [NoReq EXCEPT !.kind = "create", !.title = t, !.description = d, !.user_email = e]
Update(k, i, t, d, s) ==
  [NoReq EXCEPT !.kind = "update", !.token = k, !.id = i, !.title = t,
                !.description = d, !.status = s]
Verify(k) == [NoReq EXCEPT !.kind = "verify", !.token = k]
Delete(k, i) == [NoReq EXCEPT !.kind = "delete", !.token = k, !.id = i]
Upvote(i, e) == [NoReq EXCEPT !.kind = "upvote", !.id = i, !.user_email = e]
Comment(i, e, x) ==
  [NoReq EXCEPT !.kind = "comment", !.id = i, !.user_email = e, !.comment_text = x]
CommentsOf(i) == [NoReq EXCEPT !.kind = "comments", !.id = i]

ValidCreate == Create(Some("T"), Some("D"), Some(EmailA))

\* ------------------------------------------ votes, comments and deletion
\* One client creates items, votes, comments, reads comments and deletes.
VoteRequests ==
  {ValidCreate}
  \cup {Upvote(i, Some(EmailA)) : i \in Ids}
  \cup {Upvote(1, Some(EmailNoAt)), Upvote(1, Some(EmailB))}
  \cup {Comment(1, Some(EmailA), Some("hello")), Comment(1, Some(EmailA), Some(""))}
  \cup {CommentsOf(i) : i \in Ids}
  \cup {Delete(Some(ADMIN_TOKEN), i) : i \in Ids}

Next ==
  \/ \E r \in VoteRequests : PostFeedback(1, r)
  \/ PostFeedbackInsert(1)
  \/ PostFeedbackSelect(1)
  \/ \E r \in VoteRequests : PostUpvote(1, r)
  \/ PostUpvoteInsert(1)
  \/ PostUpvoteCount(1)
  \/ \E r \in VoteRequests : PostComment(1, r)
  \/ PostCommentInsert(1)
  \/ PostCommentSelect(1)
  \/ \E r \in VoteRequests : GetComments(1, r)
  \/ GetCommentsAll(1)
  \/ \E r \in VoteRequests : DeleteFeedback(1, r)
  \/ DeleteUpvotes(1)
  \/ DeleteComments(1)
  \/ DeleteRow(1)

Spec == Init /\ [][Next]_vars

\* ------------------------------------------------------ the admin endpoints
\* One client creates an item, votes and comments on it, and sends updates,
\* deletes and token checks with every kind of token.
AdminRequests ==
  {ValidCreate, Upvote(1, Some(EmailA)), Comment(1, Some(EmailA), Some("hello"))}
  \cup {Update(k, 1, Undefined, Undefined, s) :
          k \in Tokens, s \in {Undefined, Some("Planned"), Some("Bogus")}}
  \cup {Update(k, 1, Some("T2"), Some("D2"), Some("Planned")) :
          k \in Tokens \ {Some(ADMIN_TOKEN)}}
  \cup {Update(Some(ADMIN_TOKEN), i, Undefined, Undefined, Some("Planned")) :
          i \in Ids \ {1}}
  \cup {Verify(k) : k \in Tokens}
  \cup {Delete(k, 1) : k \in Tokens}
  \cup {Delete(Some(ADMIN_TOKEN), i) : i \in Ids \ {1}}

NextAdmin ==
  \/ \E r \in AdminRequests : PostFeedback(1, r)
  \/ PostFeedbackInsert(1)
  \/ PostFeedbackSelect(1)
  \/ \E r \in AdminRequests : PostUpvote(1, r)
  \/ PostUpvoteInsert(1)
  \/ PostUpvoteCount(1)
  \/ \E r \in AdminRequests : PostComment(1, r)
  \/ PostCommentInsert(1)
  \/ PostCommentSelect(1)
  \/ \E r \in AdminRequests : PutFeedback(1, r)
  \/ PutFeedbackUpdate(1)
  \/ PutFeedbackSelect(1)
  \/ \E r \in AdminRequests : AdminVerify(1, r)
  \/ \E r \in AdminRequests : DeleteFeedback(1, r)
  \/ DeleteUpvotes(1)
  \/ DeleteComments(1)
  \/ DeleteRow(1)

SpecAdmin == Init /\ [][NextAdmin]_vars

\* ------------------------------------------------------------ admin updates
\* One client creates items, votes and comments, and sends updates with the
\* admin token: of a stored item or not, with all, some or none of the fields,
\* with an allowed status or not, with an empty string.
UpdateRequests ==
  {ValidCreate, Upvote(1, Some(EmailA)), Comment(1, Some(EmailA), Some("hello"))}
  \cup {Update(Some(ADMIN_TOKEN), i, Undefined, Undefined, Some("Planned")) : i \in Ids}
  \cup {Update(Some(ADMIN_TOKEN), 1, Some("T2"), Some("D2"), Some("Bogus")),
        Update(Some(ADMIN_TOKEN), 1, Undefined, Undefined, Some("Bogus")),
        Update(Some(ADMIN_TOKEN), 1, Some("T2"), Undefined, Undefined),
        Update(Some(ADMIN_TOKEN), 1, Undefined, Some("D2"), Undefined),
        Update(Some(ADMIN_TOKEN), 1, Some("T2"), Some("D2"), Some("In Progress")),
        Update(Some(ADMIN_TOKEN), 1, Undefined, Some(""), Some("Completed")),
        Update(Some(ADMIN_TOKEN), 1, Some(""), Undefined, Undefined),
        Update(Some(ADMIN_TOKEN), 2, Some("T2"), Undefined, Undefined),
        Update(Some(ADMIN_TOKEN), 1, Undefined, Undefined, Undefined)}

NextUpdate ==
  \/ \E r \in UpdateRequests : PostFeedback(1, r)
  \/ PostFeedbackInsert(1)
  \/ PostFeedbackSelect(1)
  \/ \E r \in UpdateRequests : PostUpvote(1, r)
  \/ PostUpvoteInsert(1)
  \/ PostUpvoteCount(1)
  \/ \E r \in UpdateRequests : PostComment(1, r)
  \/ PostCommentInsert(1)
  \/ PostCommentSelect(1)
  \/ \E r \in UpdateRequests : PutFeedback(1, r)
  \/ PutFeedbackUpdate(1)
  \/ PutFeedbackSelect(1)

SpecUpdate == Init /\ [][NextUpdate]_vars

\* ------------------------------------------------------ submitting and listing
\* One client submits feedback, well-formed or not, votes, lists and deletes,
\* while the clock runs.
Titles == {Undefined, Some(""), Some("T")}
Descriptions == {Undefined, Some(""), Some("D")}
Submitters ==
  {Undefined, Some(EmailEmpty), Some(EmailNoAt), Some(EmailNoTld), Some(EmailSpace),
   Some(EmailA)}

SubmitRequests ==
  {Create(Some("T"), Some("D"), e) : e \in Submitters}
  \cup {Create(t, d, Some(EmailA)) : t \in Titles, d \in Descriptions}
  \cup {List(Undefined), List(Some(Newest)), List(Some(<<"N", "E", "W", "E", "S", "T">>)),
        List(Some(<<"t", "o", "p">>))}
  \cup {Upvote(i, Some(EmailA)) : i \in Ids \ {0}}
  \cup {Delete(Some(ADMIN_TOKEN), i) : i \in Ids \ {0}}

NextSubmit ==
  \/ Tick
  \/ \E r \in SubmitRequests : GetFeedback(1, r)
  \/ GetFeedbackAll(1)
  \/ \E r \in SubmitRequests : PostFeedback(1, r)
  \/ PostFeedbackInsert(1)
  \/ PostFeedbackSelect(1)
  \/ \E r \in SubmitRequests : PostUpvote(1, r)
  \/ PostUpvoteInsert(1)
  \/ PostUpvoteCount(1)
  \/ \E r \in SubmitRequests : DeleteFeedback(1, r)
  \/ DeleteUpvotes(1)
  \/ DeleteComments(1)
  \/ DeleteRow(1)

SpecSubmit == Init /\ [][NextSubmit]_vars

\* ------------------------------------------------------- concurrent clients
\* NumWorkers clients send requests that change the tables, each its next one
\* once the one before is answered; their statements interleave.
Workers == 1..NumWorkers

ConcurrentRequests ==
  {ValidCreate}
  \cup {Upvote(1, Some(EmailA)), Upvote(1, Some(EmailB)), Upvote(2, Some(EmailA))}
  \cup {Comment(1, Some(EmailA), Some("hello"))}
  \cup {Update(Some(ADMIN_TOKEN), 1, Undefined, Undefined, Some("Planned"))}
  \cup {Delete(Some(ADMIN_TOKEN), 1)}

NextConcurrent ==
  \E c \in Workers :
    \/ \E r \in ConcurrentRequests : PostFeedback(c, r)
    \/ PostFeedbackInsert(c)
    \/ PostFeedbackSelect(c)
    \/ \E r \in ConcurrentRequests : PostUpvote(c, r)
    \/ PostUpvoteInsert(c)
    \/ PostUpvoteCount(c)
    \/ \E r \in ConcurrentRequests : PostComment(c, r)
    \/ PostCommentInsert(c)
    \/ PostCommentSelect(c)
    \/ \E r \in ConcurrentRequests : PutFeedback(c, r)
    \/ PutFeedbackUpdate(c)
    \/ PutFeedbackSelect(c)
    \/ \E r \in ConcurrentRequests : DeleteFeedback(c, r)
    \/ DeleteUpvotes(c)
    \/ DeleteComments(c)
    \/ DeleteRow(c)

SpecConcurrent == InitConcurrent /\ [][NextConcurrent]_vars

\* ------------------------------------------------------------ racing votes
\* Every client sends at most one vote, after any submissions of its own; the
\* votes run concurrently, their statements interleaved in any order.
NotVotedYet(c) == pc[c] = "idle" \/ (pc[c] = "done" /\ req[c].kind = "create")

RaceRequests ==
  {ValidCreate, Upvote(1, Some(EmailA)), Upvote(1, Some(EmailB)),
   Upvote(2, Some(EmailA))}

SubmitBeforeVote(c, r) == NotVotedYet(c) /\ PostFeedback(c, r)
VoteOnce(c, r) == NotVotedYet(c) /\ PostUpvote(c, r)

NextRace ==
  \E c \in Clients :
    \/ \E r \in RaceRequests : SubmitBeforeVote(c, r)
    \/ PostFeedbackInsert(c)
    \/ PostFeedbackSelect(c)
    \/ \E r \in RaceRequests : VoteOnce(c, r)
    \/ PostUpvoteInsert(c)
    \/ PostUpvoteCount(c)

SpecRace == InitConcurrent /\ [][NextRace]_vars

\* ------------------------------------------------- requests racing a delete
\* Every client sends at most one vote, comment or delete, addressed to an item
\* that is stored when the request is received, after any submissions of its
\* own; the requests run concurrently, their statements interleaved in any
\* order.
Stored(r) == r.id \in {f.id : f \in feedback}

CascadeRequests ==
  {ValidCreate, Upvote(1, Some(EmailA)), Upvote(1, Some(EmailB)),
   Comment(1, Some(EmailA), Some("hello")), Delete(Some(ADMIN_TOKEN), 1)}

SubmitFirst(c, r) == NotVotedYet(c) /\ PostFeedback(c, r)
VoteStored(c, r) == NotVotedYet(c) /\ Stored(r) /\ PostUpvote(c, r)
CommentStored(c, r) == NotVotedYet(c) /\ Stored(r) /\ PostComment(c, r)
DeleteStored(c, r) == NotVotedYet(c) /\ Stored(r) /\ DeleteFeedback(c, r)

NextCascade ==
  \E c \in Clients :
    \/ \E r \in CascadeRequests : SubmitFirst(c, r)
    \/ PostFeedbackInsert(c)
    \/ PostFeedbackSelect(c)
    \/ \E r \in CascadeRequests : VoteStored(c, r)
    \/ PostUpvoteInsert(c)
    \/ PostUpvoteCount(c)
    \/ \E r \in CascadeRequests : CommentStored(c, r)
    \/ PostCommentInsert(c)
    \/ PostCommentSelect(c)
    \/ \E r \in CascadeRequests : DeleteStored(c, r)
    \/ DeleteUpvotes(c)
    \/ DeleteComments(c)
    \/ DeleteRow(c)

SpecCascade == InitConcurrent /\ [][NextCascade]_vars

\* ------------------------------------------------------ a writer and a reader
\* Requests come one at a time.  The writer submits, votes and comments, also
\* on ids that are not stored; the reader lists the items and reads comments
\* in between, while the clock runs.
Writer == 1
Reader == 2

Quiet == \A c \in Clients : Ready(c)

ReadRequests ==
  {ValidCreate, Upvote(1, Some(EmailA)), Comment(1, Some(EmailA), Some("hello")),
   Comment(2, Some(EmailB), Some("hello")), List(Undefined), CommentsOf(1)}

Submit(r) == Quiet /\ PostFeedback(Writer, r)
Vote(r) == Quiet /\ PostUpvote(Writer, r)
AddComment(r) == Quiet /\ PostComment(Writer, r)
ReadList(r) == Quiet /\ GetFeedback(Reader, r)
ReadComments(r) == Quiet /\ GetComments(Reader, r)

NextRead ==
  \/ Tick
  \/ \E r \in ReadRequests : Submit(r)
  \/ PostFeedbackInsert(Writer)
  \/ PostFeedbackSelect(Writer)
  \/ \E r \in ReadRequests : Vote(r)
  \/ PostUpvoteInsert(Writer)
  \/ PostUpvoteCount(Writer)
  \/ \E r \in ReadRequests : AddComment(r)
  \/ PostCommentInsert(Writer)
  \/ PostCommentSelect(Writer)
  \/ \E r \in ReadRequests : ReadList(r)
  \/ GetFeedbackAll(Reader)
  \/ \E r \in ReadRequests : ReadComments(r)
  \/ GetCommentsAll(Reader)

SpecRead == Init /\ [][NextRead]_vars

\* ------------------------------------------------------- reading a response
Done(c, kind) == pc[c] = "done" /\ req[c].kind = kind
FeedbackIds(fs) == {f.id : f \in fs}
VotedBy(ups, id, email) == \E u \in ups : u.feedback_id = id /\ u.user_email = email
HasAdminToken(r) == r.token = Some(ADMIN_TOKEN)
EmptyOrMissing(o) == o = Undefined \/ Len(o[1]) = 0

\* local@domain.tld: three non-empty parts without white space or @, joined by
\* one @ and a dot
Part(s) == s # <<>> /\ \A k \in DOMAIN s : s[k] \notin {" ", "\t", "\n", "\r", "@"}
Shaped(e) ==
  \E n \in 1..Len(e) : \E m \in 1..Len(e) :
    /\ n + 1 < m
    /\ m < Len(e)
    /\ SubSeq(e, n, n) = <<"@">>
    /\ SubSeq(e, m, m) = <<".">>
    /\ Part(SubSeq(e, 1, n - 1))
    /\ Part(SubSeq(e, n + 1, m - 1))
    /\ Part(SubSeq(e, m + 1, Len(e)))
Wellformed(o) == o # Undefined /\ Shaped(o[1])

\* C1: the upvotes table holds at most one row for a feedback id and a voter
\* email.
C1_OneVotePerPair ==
  \A u, v \in upvotes :
    (u.feedback_id = v.feedback_id /\ u.user_email = v.user_email) => u = v

\* a vote is stored and a second request for the same pair has been answered
\* 409 while another client's request is under way
C1_Witness ==
  \E c, d \in Clients :
    /\ Done(c, "upvote")
    /\ res[c].status = 409
    /\ VotedBy(upvotes, req[c].id, req[c].user_email[1])
    /\ pc[d] \notin {"idle", "done"}

\* C2: of the votes sent concurrently for one feedback id and voter email, at
\* most one is answered 200 and every other answer is 409; once all of them are
\* answered, exactly one was answered 200.
Racers(i, e) ==
  {c \in Clients : req[c].kind = "upvote" /\ req[c].id = i /\ req[c].user_email = Some(e)}
Answered(G, code) == {c \in G : pc[c] = "done" /\ res[c].status = code}

C2_OneRacerWins ==
  \A i \in Ids, e \in {EmailA, EmailB} :
    LET G == Racers(i, e)
    IN  /\ Cardinality(Answered(G, 200)) <= 1
        /\ \A c \in G : pc[c] = "done" => res[c].status \in {200, 409}
        /\ (G # {} /\ \A c \in G : pc[c] = "done") =>
              /\ Cardinality(Answered(G, 200)) = 1
              /\ Answered(G, 409) = G \ Answered(G, 200)

\* every client has voted for the same pair of an item that exists: one was
\* answered 200 and at least two 409
C2_Witness ==
  \E i \in Ids, e \in {EmailA, EmailB} :
    /\ Racers(i, e) = Clients
    /\ i \in FeedbackIds(feedback)
    /\ Cardinality(Answered(Clients, 200)) = 1
    /\ Cardinality(Answered(Clients, 409)) >= 2

\* C3: one client votes for an item that exists.  If the item had no votes when
\* the request was received, the answer is 200 with upvote_count = 1 and the
\* pair is stored; if the pair was already stored, the answer is 409 and the
\* upvotes table (so the item's count) is as it was.  The second vote of a pair
\* in sequence meets the state the first one left.
C3_UpvoteTwice ==
  \A c \in Clients :
    (Done(c, "upvote") /\ Wellformed(req[c].user_email)
       /\ req[c].id \in FeedbackIds(pre.feedback)) =>
      /\ UpvoteCount(pre.upvotes, req[c].id) = 0 =>
           /\ res[c].status = 200
           /\ res[c].body[1].upvote_count = 1
           /\ UpvoteCount(upvotes, req[c].id) = 1
           /\ VotedBy(upvotes, req[c].id, req[c].user_email[1])
      /\ VotedBy(pre.upvotes, req[c].id, req[c].user_email[1]) =>
           /\ res[c].status = 409
           /\ upvotes = pre.upvotes
           /\ UpvoteCount(upvotes, req[c].id) = UpvoteCount(pre.upvotes, req[c].id)

\* the second vote of the only voter of an item has been answered 409
C3_Witness ==
  \E c \in Clients :
    /\ Done(c, "upvote")
    /\ req[c].id \in FeedbackIds(feedback)
    /\ res[c].status = 409
    /\ UpvoteCount(pre.upvotes, req[c].id) = 1
    /\ UpvoteCount(upvotes, req[c].id) = 1

\* C5: a DELETE with the admin token of an item that exists is answered 200 and
\* leaves no feedback, upvote or comment row of that id; a GET of the comments
\* of an id that has no comment row (as after that DELETE) is answered 200 with
\* an empty array.
C5_DeleteCascades ==
  \A c \in Clients :
    /\ (Done(c, "delete") /\ HasAdminToken(req[c])
          /\ req[c].id \in FeedbackIds(pre.feedback)) =>
         /\ res[c].status = 200
         /\ req[c].id \notin FeedbackIds(feedback)
         /\ UpvoteCount(upvotes, req[c].id) = 0
         /\ CommentCount(comments, req[c].id) = 0
         /\ feedback = {f \in pre.feedback : f.id # req[c].id}
    /\ (Done(c, "comments") /\ req[c].id # 0
          /\ CommentCount(pre.comments, req[c].id) = 0) =>
         /\ res[c].status = 200
         /\ res[c].body = <<>>

\* an item that had a vote and a comment has been deleted
C5_Witness ==
  \E c \in Clients :
    /\ Done(c, "delete")
    /\ res[c].status = 200
    /\ UpvoteCount(pre.upvotes, req[c].id) > 0
    /\ CommentCount(pre.comments, req[c].id) > 0
    /\ req[c].id \in FeedbackIds(pre.feedback)

\* C6: a DELETE with the admin token of an id that has no feedback row is
\* answered 404 and leaves the feedback table as it was, so the id is still
\* absent and the same DELETE is answered 404 again.
C6_DeleteAbsent ==
  \A c \in Clients :
    (Done(c, "delete") /\ HasAdminToken(req[c]) /\ req[c].id # 0
       /\ req[c].id \notin FeedbackIds(pre.feedback)) =>
      /\ res[c].status = 404
      /\ feedback = pre.feedback
      /\ req[c].id \notin FeedbackIds(feedback)

\* the DELETE of an item that was deleted before has been answered 404, while
\* another item is stored
C6_Witness ==
  \E c \in Clients :
    /\ Done(c, "delete")
    /\ res[c].status = 404
    /\ req[c].id <= feedbackSeq
    /\ feedback # {}
    /\ feedback = pre.feedback

\* C7: every upvote row and every comment row references a feedback item that
\* is stored.
C7_NoOrphans ==
  /\ \A u \in upvotes : u.feedback_id \in FeedbackIds(feedback)
  /\ \A m \in comments : m.feedback_id \in FeedbackIds(feedback)

\* C8: a GET of the comments of an id that has no feedback row is answered 200
\* with an empty list.
C8_CommentsOfAbsentEmpty ==
  \A c \in Clients :
    (Done(c, "comments") /\ req[c].id # 0 /\ req[c].id \notin FeedbackIds(feedback)) =>
      /\ res[c].status = 200
      /\ res[c].body = <<>>

\* C4: a request to PUT /api/feedback/:id, DELETE /api/feedback/:id or
\* GET /api/admin/verify whose x-admin-token is missing, empty or not the
\* configured secret is answered 401 at once, and the three tables are as they
\* were when it was received, whatever its id and body.
AdminGated == {"update", "delete", "verify"}
BadToken(k) == k = Undefined \/ k = Some("") \/ k # Some(ADMIN_TOKEN)

C4_Unauthorized ==
  \A c \in Clients :
    (req[c].kind \in AdminGated /\ BadToken(req[c].token)) =>
      /\ pc[c] = "done"
      /\ res[c].status = 401
      /\ feedback = pre.feedback
      /\ upvotes = pre.upvotes
      /\ comments = pre.comments

\* a DELETE with a wrong token of an item that has a vote and a comment has
\* been answered 401
C4_Witness ==
  \E c \in Clients :
    /\ Done(c, "delete")
    /\ req[c].token = Some("wrong")
    /\ res[c].status = 401
    /\ req[c].id \in FeedbackIds(feedback)
    /\ UpvoteCount(upvotes, req[c].id) > 0
    /\ CommentCount(comments, req[c].id) > 0

\* C9: a submission with a non-empty title, a non-empty description and a
\* well-formed email is answered 201 with the new item: the submitted fields,
\* status Open, upvote_count 0 and comment_count 0; the item is stored; a stored
\* item leaves the table only by a DELETE of its id that is answered 200; and
\* every listing holds each stored item exactly once.
ValidSubmission(r) ==
  /\ ~EmptyOrMissing(r.title)
  /\ ~EmptyOrMissing(r.description)
  /\ Wellformed(r.user_email)

C9_Created ==
  \A c \in Clients :
    (Done(c, "create") /\ ValidSubmission(req[c])) =>
      /\ res[c].status = 201
      /\ Len(res[c].body) = 1
      /\ LET item == res[c].body[1]
         IN  /\ item.title = req[c].title[1]
             /\ item.description = req[c].description[1]
             /\ item.user_email = req[c].user_email[1]
             /\ item.status = "Open"
             /\ item.upvote_count = 0
             /\ item.comment_count = 0
             /\ item.id \notin FeedbackIds(pre.feedback)
             /\ \E f \in feedback :
                   /\ f.id = item.id
                   /\ f.title = item.title
                   /\ f.description = item.description
                   /\ f.user_email = item.user_email
                   /\ f.status = "Open"

C9_Listed ==
  \A c \in Clients :
    Done(c, "list") =>
      /\ res[c].status = 200
      /\ Len(res[c].body) = Cardinality(feedback)
      /\ \A f \in feedback : \E k \in 1..Len(res[c].body) : res[c].body[k].id = f.id

C9_KeptUntilDeleted ==
  \A f \in feedback :
    \/ f.id \in FeedbackIds(feedback')
    \/ \E c \in Clients :
         /\ req'[c] = Delete(Some(ADMIN_TOKEN), f.id)
         /\ pc'[c] = "done"
         /\ res'[c].status = 200

C9_SubmissionListed == [](C9_Created /\ C9_Listed) /\ [][C9_KeptUntilDeleted]_vars

\* a listing without upvotes holds the one item left after a second was
\* submitted and the first deleted
C9_Witness ==
  \E c \in Clients :
    /\ Done(c, "list")
    /\ feedbackSeq = 2
    /\ upvotes = {}
    /\ Len(res[c].body) = 1
    /\ res[c].body[1].id = 2

\* C10: a submission whose title or description is empty or missing, or whose
\* email is missing or not of the shape local@domain.tld, is answered 400 at
\* once and the three tables are as they were.
C10_Rejected ==
  \A c \in Clients :
    (req[c].kind = "create" /\ ~ValidSubmission(req[c])) =>
      /\ pc[c] = "done"
      /\ res[c].status = 400
      /\ feedback = pre.feedback
      /\ upvotes = pre.upvotes
      /\ comments = pre.comments

\* a submission with the email a@x (no top-level domain) has been answered
\* 400 while an item is stored
C10_Witness ==
  \E c \in Clients :
    /\ Done(c, "create")
    /\ req[c].user_email = Some(EmailNoTld)
    /\ ~EmptyOrMissing(req[c].title)
    /\ ~EmptyOrMissing(req[c].description)
    /\ res[c].status = 400
    /\ feedback # {}

\* C11: a listing holds every stored item.  Asked for newest (in any letter
\* case), its items come in strictly descending creation time whatever their
\* votes; asked for upvotes, nothing or anything else, they come by upvote_count
\* descending and, among equal counts, by creation time descending.
AsksNewest(r) == r.sortBy \in {Some(<<"n", "e", "w", "e", "s", "t">>),
                               Some(<<"N", "E", "W", "E", "S", "T">>)}

C11_ListingOrder ==
  \A c \in Clients :
    Done(c, "list") =>
      /\ res[c].status = 200
      /\ {res[c].body[k].id : k \in 1..Len(res[c].body)} = FeedbackIds(feedback)
      /\ \A k, l \in 1..Len(res[c].body) :
           k < l =>
             IF AsksNewest(req[c])
               THEN res[c].body[k].created_at > res[c].body[l].created_at
               ELSE \/ res[c].body[k].upvote_count > res[c].body[l].upvote_count
                    \/ /\ res[c].body[k].upvote_count = res[c].body[l].upvote_count
                       /\ res[c].body[k].created_at >= res[c].body[l].created_at

\* C12: when a comment posted to a stored item is answered 201, the item has
\* exactly one comment more than when the request was received, and the counts
\* of votes and of every other item's comments are as they were; a listing
\* reports for every item the number of its comment rows; and a GET of the
\* item's comments that follows the POST ends with the new comment.
C12_CommentAnswered ==
  (/\ pc[Writer] = "comment_select"
   /\ pc'[Writer] = "done"
   /\ res'[Writer].status = 201
   /\ req[Writer].id \in FeedbackIds(pre.feedback)) =>
    /\ CommentCount(comments', req[Writer].id) =
         CommentCount(pre.comments, req[Writer].id) + 1
    /\ \A i \in Ids \ {req[Writer].id} :
         CommentCount(comments', i) = CommentCount(pre.comments, i)
    /\ \A i \in Ids : UpvoteCount(upvotes', i) = UpvoteCount(pre.upvotes, i)

C12_CountListed ==
  (pc[Reader] = "list_all" /\ pc'[Reader] = "done") =>
    \A k \in 1..Len(res'[Reader].body) :
      res'[Reader].body[k].comment_count =
        CommentCount(comments', res'[Reader].body[k].id)

C12_NewCommentLast ==
  (/\ pc[Reader] = "comments_all"
   /\ pc'[Reader] = "done"
   /\ Done(Writer, "comment")
   /\ res[Writer].status = 201
   /\ req[Writer].id = req[Reader].id
   /\ req[Writer].id \in FeedbackIds(feedback)) =>
    /\ res'[Reader].status = 200
    /\ res'[Reader].body # <<>>
    /\ res'[Reader].body[Len(res'[Reader].body)] = res[Writer].body[1]

C12_CommentAppended ==
  [][C12_CommentAnswered /\ C12_CountListed /\ C12_NewCommentLast]_vars

\* C13: an update with the admin token whose status is not Open, Planned,
\* In Progress or Completed is answered 400 and leaves the feedback table (so
\* the stored status, title and description) as it was, also when it supplies
\* a title or a description; an update of a stored item with one of the four
\* statuses is answered 200, and the returned row and the stored row carry that
\* status.
StatusNames == {"Open", "Planned", "In Progress", "Completed"}

C13_StatusChecked ==
  \A c \in Clients :
    (Done(c, "update") /\ HasAdminToken(req[c]) /\ req[c].id # 0
       /\ req[c].status # Undefined) =>
      /\ req[c].status[1] \notin StatusNames =>
           /\ res[c].status = 400
           /\ feedback = pre.feedback
      /\ (req[c].status[1] \in StatusNames /\ req[c].id \in FeedbackIds(pre.feedback)) =>
           /\ res[c].status = 200
           /\ res[c].body[1].status = req[c].status[1]
           /\ \E f \in feedback : f.id = req[c].id /\ f.status = req[c].status[1]

\* an update with status Bogus, a title and a description, of an item whose
\* status an earlier update set to Planned, has been answered 400
C13_Witness ==
  \E c \in Clients :
    /\ Done(c, "update")
    /\ req[c].status = Some("Bogus")
    /\ req[c].title # Undefined
    /\ res[c].status = 400
    /\ \E f \in feedback : f.id = req[c].id /\ f.status = "Planned" /\ f.title = "T"

\* C14: the cascading delete is atomic for the requests that run beside it.
\* Once a DELETE of an item has been answered 200 and every vote and comment
\* sent for that item while it was stored has been answered, no upvote row and
\* no comment row references the deleted id.
C14_DeleteAtomic ==
  \A c \in Clients :
    (Done(c, "delete") /\ res[c].status = 200 /\ \A d \in Clients : Ready(d)) =>
      /\ UpvoteCount(upvotes, req[c].id) = 0
      /\ CommentCount(comments, req[c].id) = 0

\* C15: every stored feedback item has a non-empty title and a non-empty
\* description, whatever submissions and admin updates were served.
C15_NonEmptyText ==
  \A f \in feedback : f.title # "" /\ f.description # ""

\* C16: an update with the admin token of an id that has no feedback row leaves
\* the three tables as they were and is not answered 200; when its body is one
\* the handler accepts (some field supplied, status absent or one of the four),
\* it is answered 500.
SuppliesField(r) ==
  r.title # Undefined \/ r.description # Undefined \/ r.status # Undefined
StatusAccepted(r) == r.status = Undefined \/ r.status[1] \in StatusNames

C16_UpdateAbsent ==
  \A c \in Clients :
    (Done(c, "update") /\ HasAdminToken(req[c]) /\ req[c].id # 0
       /\ req[c].id \notin FeedbackIds(pre.feedback)) =>
      /\ feedback = pre.feedback
      /\ upvotes = pre.upvotes
      /\ comments = pre.comments
      /\ res[c].status # 200
      /\ (SuppliesField(req[c]) /\ StatusAccepted(req[c])) => res[c].status = 500

\* the update of an id that is not stored has been answered 500 while another
\* item, with a vote and a comment, is stored
C16_Witness ==
  \E c \in Clients :
    /\ Done(c, "update")
    /\ res[c].status = 500
    /\ req[c].id \notin FeedbackIds(feedback)
    /\ feedback # {}
    /\ upvotes # {}
    /\ comments # {}

\* C17: an update answered 200 changes, in the row of its id, the fields among
\* title, description and status that the body supplies, to the supplied
\* values; the row's id, submitter email and creation time, its fields that
\* are not supplied, every other feedback row and every upvote and comment row
\* are as they were; the response is the row as it is stored.
Supplied(o, old) == IF o = Undefined THEN old ELSE o[1]

C17_UpdateFrame ==
  \A c \in Clients :
    (Done(c, "update") /\ res[c].status = 200) =>
      /\ upvotes = pre.upvotes
      /\ comments = pre.comments
      /\ {f \in feedback : f.id # req[c].id} = {f \in pre.feedback : f.id # req[c].id}
      /\ Cardinality({f \in feedback : f.id = req[c].id}) = 1
      /\ \E old \in pre.feedback :
           /\ old.id = req[c].id
           /\ res[c].body =
                <<[id |-> old.id,
                   title |-> Supplied(req[c].title, old.title),
                   description |-> Supplied(req[c].description, old.description),
                   user_email |-> old.user_email,
                   created_at |-> old.created_at,
                   status |-> Supplied(req[c].status, old.status)]>>
      /\ res[c].body[1] \in feedback

\* an update with a title and no status, of an item whose status is Planned
\* and that has a vote and a comment, has been answered 200 while a second
\* item is stored
C17_Witness ==
  \E c \in Clients :
    /\ Done(c, "update")
    /\ res[c].status = 200
    /\ req[c].title = Some("T2")
    /\ req[c].status = Undefined
    /\ res[c].body[1].status = "Planned"
    /\ res[c].body[1].title = "T2"
    /\ UpvoteCount(upvotes, req[c].id) > 0
    /\ CommentCount(comments, req[c].id) > 0
    /\ Cardinality(feedback) = 2

\* C18: the status of every stored item is Open, Planned, In Progress or
\* Completed; an item enters the table with status Open; and the status of a
\* stored item changes only in the UPDATE of a request for that item that
\* carries the admin token and supplies the new status.
C18_StatusAllowed == \A f \in feedback : f.status \in StatusNames

C18_StatusStep ==
  \A g \in feedback' :
    /\ g.id \notin FeedbackIds(feedback) => g.status = "Open"
    /\ \A f \in feedback :
         (f.id = g.id /\ f.status # g.status) =>
           \E c \in Clients :
             /\ pc[c] = "update_run"
             /\ pc'[c] = "update_select"
             /\ req[c].kind = "update"
             /\ req[c].token = Some(ADMIN_TOKEN)
             /\ req[c].id = g.id
             /\ req[c].status = Some(g.status)

C18_StatusGuarded == []C18_StatusAllowed /\ [][C18_StatusStep]_vars

\* an update with the admin token and the status Bogus has been answered 400
\* while one item has status Planned and a newer one status Open
C18_Witness ==
  \E c \in Clients :
    /\ Done(c, "update")
    /\ req[c].token = Some(ADMIN_TOKEN)
    /\ req[c].status = Some("Bogus")
    /\ res[c].status = 400
    /\ \E f, g \in feedback : f.id < g.id /\ f.status = "Planned" /\ g.status = "Open"

\* C19, as the code has it: the upvote_count of a vote answered 200 is the
\* number of upvote rows of the item at the moment the count is read; it is 0
\* only if the DELETE FROM upvotes of a delete request for the item has run.
DeletedUpvotesOf(i) ==
  \E d \in Clients :
    /\ req[d].kind = "delete"
    /\ req[d].id = i
    /\ pc[d] \in {"delete_comments", "delete_feedback", "done"}

C19_CountRead ==
  \A c \in Clients :
    (pc[c] = "upvote_count" /\ pc'[c] = "done") =>
      /\ res'[c].status = 200
      /\ res'[c].body[1].upvote_count = UpvoteCount(upvotes, req[c].id)
      /\ res'[c].body[1].upvote_count = 0 => DeletedUpvotesOf(req[c].id)

C19_CountWhenRead == [][C19_CountRead]_vars

\* a vote has been answered 200 with upvote_count 0 while the delete that
\* removed it is still under way and the item is stored
C19_Witness ==
  \E c, d \in Clients :
    /\ Done(c, "upvote")
    /\ res[c].status = 200
    /\ res[c].body[1].upvote_count = 0
    /\ req[d].kind = "delete"
    /\ pc[d] = "delete_feedback"
    /\ req[c].id \in FeedbackIds(feedback)

\* C19: the upvote_count of a vote answered 200 is the number of upvote rows of
\* the item at the moment the count is read, and it counts the vote just
\* inserted: it is at least 1, also when votes and a delete for the same item
\* run between the insert and the count.
C19_CountsOwnVote ==
  \A c \in Clients :
    (Done(c, "upvote") /\ res[c].status = 200) => res[c].body[1].upvote_count >= 1

C19_CountAfterVote == []C19_CountsOwnVote /\ C19_CountWhenRead

\* C20: a listing that follows a submission answered 201, with no request
\* other than reads in between, reports for the new item upvote_count 0 and
\* comment_count 0, the counts of the 201 response, whatever was served before
\* the submission.
C20_ListAfterCreate ==
  (/\ pc[Reader] = "list_all"
   /\ pc'[Reader] = "done"
   /\ Done(Writer, "create")
   /\ res[Writer].status = 201) =>
    \E k \in 1..Len(res'[Reader].body) :
      /\ res'[Reader].body[k].id = res[Writer].body[1].id
      /\ res'[Reader].body[k].upvote_count = 0
      /\ res'[Reader].body[k].comment_count = 0
      /\ res[Writer].body[1].upvote_count = res'[Reader].body[k].upvote_count
      /\ res[Writer].body[1].comment_count = res'[Reader].body[k].comment_count

C20_CreatedCountsAgree == [][C20_ListAfterCreate]_vars

====
